---- MODULE Spec2Model ----
(***************************************************************************)
(* Control3D (gui/src/3D/controls/control3D.ts): the pointer state machine *)
(* of a 3D control, its routing through the GUI3DManager's per-pointer     *)
(* maps, and the behavior attach/detach lifecycle.                         *)
(*                                                                         *)
(* Payloads that never influence control flow (picked point, button index) *)
(* and the optional animation hooks are left out; every notifyObservers    *)
(* call is recorded in `fired`, in call order, for the last operation.     *)
(***************************************************************************)
EXTENDS Integers, Sequences, FiniteSets, TLC

\* ---------------------------------------------------------------- bounds
NumControls == 2
NumPointers == 2
NumBehaviors == 2
MaxCalls == 1

Controls == 1..NumControls
PointerIds == 1..NumPointers
Behaviors == 1..NumBehaviors
\* An absent map entry / a null reference.
None == 0

Channels == {"move", "out", "down", "up", "click", "enter"}
EventTypes == {"MOVE", "DOWN", "UP", "OTHER"}

VARIABLES
    enterCount,        \* Control3D._enterCount, per control
    downCount,         \* Control3D._downCount, per control
    downPointerIds,    \* Control3D._downPointerIds, per control (set of keys)
    observers,         \* per control: the channels whose observable still holds its subscriber
    lastControlOver,   \* GUI3DManager._lastControlOver, per pointer id
    lastControlDown,   \* GUI3DManager._lastControlDown, per pointer id
    lastPickedControl, \* GUI3DManager._lastPickedControl
    behaviors,         \* Control3D._behaviors, per control (a sequence)
    isLoading,         \* scene.isLoading
    onDataLoaded,      \* scene.onDataLoadedObservable: the pending addOnce callbacks
    initCalls,         \* per behavior: number of init() calls
    attachCalls,       \* per behavior: number of attach() calls
    detachCalls,       \* per behavior: number of detach() calls
    fired,             \* notifyObservers calls of the last operation, in order
    ret,               \* return value of the last operation
    last,              \* the last operation and its arguments
    lastEnterOut,      \* history: last of enter/out notified on each control
    lastDownUp         \* history: last of down/up notified on each control

ctlVars == <<enterCount, downCount, downPointerIds>>
mgrVars == <<lastControlOver, lastControlDown, lastPickedControl>>
behVars == <<behaviors, isLoading, onDataLoaded, initCalls, attachCalls, detachCalls>>
obsVars == <<fired, ret, last, lastEnterOut, lastDownUp>>
vars == <<ctlVars, observers, mgrVars, behVars, obsVars>>

\* ------------------------------------------------------------ helpers
RECURSIVE SeqToSet(_)
SeqToSet(s) == IF s = <<>> THEN {} ELSE {Head(s)} \cup SeqToSet(Tail(s))

\* Array.prototype.indexOf: first index holding x, -1 when absent.
IndexOf(s, x) ==
    IF \E i \in 1..Len(s) : s[i] = x
    THEN CHOOSE i \in 1..Len(s) : s[i] = x /\ \A j \in 1..(i - 1) : s[j] # x
    ELSE -1

\* Array.prototype.splice(index, 1)
Splice(s, i) == [j \in 1..(Len(s) - 1) |-> IF j < i THEN s[j] ELSE s[j + 1]]

CountIn(s, x) == Cardinality({i \in 1..Len(s) : s[i] = x})

Min(S) == CHOOSE x \in S : \A y \in S : x <= y

\* The control instance the single-control specifications call into.
Subject == Min(Controls)

\* The notifications of kind ev that `f` holds for control c.
FiredOn(f, ev, c) == SelectSeq(f, LAMBDA e : e.ev = ev /\ e.on = c)
NumFired(f, ev, c) == Len(FiredOn(f, ev, c))
\* Restriction of `f` to the kinds in evs.
Only(f, evs) == SelectSeq(f, LAMBDA e : e.ev \in evs)

\* ------------------------------------------------- the control's world
\* The part of the state the pointer primitives read and write, threaded
\* through nested calls.
World ==
    [enterCount |-> enterCount, downCount |-> downCount,
     downPointerIds |-> downPointerIds, observers |-> observers,
     lastControlOver |-> lastControlOver, lastControlDown |-> lastControlDown,
     lastPickedControl |-> lastPickedControl,
     fired |-> <<>>, ret |-> "void"]

\* Observable.notifyObservers(payload, -1, target, currentTarget = c)
Notify(w, ev, c, target) ==
    [w EXCEPT !.fired = Append(@, [ev |-> ev, on |-> c, target |-> target,
                                   heard |-> ev \in w.observers[c]])]

\* Control3D._onPointerMove
onPointerMove(w, c, target) == Notify(w, "move", c, target)

\* Mutant: the guard on enter-count is missing.
onPointerEnterUnguarded(w, c, target) ==
    [Notify([w EXCEPT !.enterCount[c] = @ + 1], "enter", c, target)
       EXCEPT !.ret = "true"]

\* Control3D._onPointerEnter
onPointerEnter(w, c, target) ==
    IF w.enterCount[c] # 0
    THEN [w EXCEPT !.ret = "false"]
    ELSE [Notify([w EXCEPT !.enterCount[c] = @ + 1], "enter", c, target)
            EXCEPT !.ret = "true"]

\* Mutant: enter-count is decremented instead of reset.
onPointerOutDecrement(w, c, target) ==
    [Notify([w EXCEPT !.enterCount[c] = @ - 1], "out", c, target)
       EXCEPT !.ret = "void"]

\* Control3D._onPointerOut
onPointerOut(w, c, target) ==
    [Notify([w EXCEPT !.enterCount[c] = 0], "out", c, target)
       EXCEPT !.ret = "void"]

\* Mutant: presses are counted, not debounced.
onPointerDownUnguarded(w, c, target, pointerId) ==
    [Notify([w EXCEPT !.downCount[c] = @ + 1,
                      !.downPointerIds[c] = @ \cup {pointerId}],
            "down", c, target)
       EXCEPT !.ret = "true"]

\* Control3D._onPointerDown
onPointerDown(w, c, target, pointerId) ==
    IF w.downCount[c] # 0
    THEN [w EXCEPT !.ret = "false"]
    ELSE [Notify([w EXCEPT !.downCount[c] = @ + 1,
                           !.downPointerIds[c] = @ \cup {pointerId}],
                 "down", c, target)
            EXCEPT !.ret = "true"]

\* Mutant: the down-count is decremented instead of reset.
onPointerUpDecrement(w, c, target, pointerId, notifyClick) ==
    LET w1 == [w EXCEPT !.downCount[c] = @ - 1,
                        !.downPointerIds[c] = @ \ {pointerId}]
        w2 == IF notifyClick /\ w1.enterCount[c] > 0
              THEN Notify(w1, "click", c, target)
              ELSE w1
    IN  [Notify(w2, "up", c, target) EXCEPT !.ret = "void"]

\* Mutant: click is notified without looking at the enter-count.
onPointerUpClickUnhovered(w, c, target, pointerId, notifyClick) ==
    LET w1 == [w EXCEPT !.downCount[c] = 0,
                        !.downPointerIds[c] = @ \ {pointerId}]
        w2 == IF notifyClick THEN Notify(w1, "click", c, target) ELSE w1
    IN  [Notify(w2, "up", c, target) EXCEPT !.ret = "void"]

\* Control3D._onPointerUp
onPointerUp(w, c, target, pointerId, notifyClick) ==
    LET w1 == [w EXCEPT !.downCount[c] = 0,
                        !.downPointerIds[c] = @ \ {pointerId}]
        w2 == IF notifyClick /\ w1.enterCount[c] > 0
              THEN Notify(w1, "click", c, target)
              ELSE w1
    IN  [Notify(w2, "up", c, target) EXCEPT !.ret = "void"]

\* The for-in loop of forcePointerUp: integer keys are visited in ascending
\* order; a key deleted before it is visited is skipped.
RECURSIVE forEachDownPointerId(_, _, _)
forEachDownPointerId(w, c, visited) ==
    LET left == w.downPointerIds[c] \ visited
    IN  IF left = {} THEN w
        ELSE forEachDownPointerId(onPointerUp(w, c, c, Min(left), TRUE), c,
                                  visited \cup {Min(left)})

\* Mutant: without an id only the first recorded pointer id is released.
forcePointerUpFirstOnly(w, c, pointerId) ==
    IF pointerId # None
    THEN onPointerUp(w, c, c, pointerId, TRUE)
    ELSE IF w.downPointerIds[c] = {} THEN [w EXCEPT !.ret = "void"]
         ELSE onPointerUp(w, c, c, Min(w.downPointerIds[c]), TRUE)

\* Control3D.forcePointerUp; pointerId = None stands for null.
forcePointerUp(w, c, pointerId) ==
    IF pointerId # None
    THEN onPointerUp(w, c, c, pointerId, TRUE)
    ELSE [forEachDownPointerId(w, c, {}) EXCEPT !.ret = "void"]

\* Mutant: the control the pointer leaves is not told.
processMoveNoOut(w, c, pointerId) ==
    LET w1 == onPointerMove(w, c, c)
        previousControlOver == w1.lastControlOver[pointerId]
        w3 == IF previousControlOver # c
              THEN onPointerEnter(w1, c, c)
              ELSE w1
    IN  [w3 EXCEPT !.lastControlOver[pointerId] = c, !.ret = "true"]

\* Mutant: the manager's lastControlOver entry is not updated.
processMoveNoRecord(w, c, pointerId) ==
    LET w1 == onPointerMove(w, c, c)
        previousControlOver == w1.lastControlOver[pointerId]
        w2 == IF previousControlOver # None /\ previousControlOver # c
              THEN onPointerOut(w1, previousControlOver, c)
              ELSE w1
        w3 == IF previousControlOver # c
              THEN onPointerEnter(w2, c, c)
              ELSE w2
    IN  [w3 EXCEPT !.ret = "true"]

\* Mutant: enter is attempted on every MOVE, also from the same control.
processMoveAlwaysEnter(w, c, pointerId) ==
    LET w1 == onPointerMove(w, c, c)
        previousControlOver == w1.lastControlOver[pointerId]
        w2 == IF previousControlOver # None /\ previousControlOver # c
              THEN onPointerOut(w1, previousControlOver, c)
              ELSE w1
        w3 == onPointerEnter(w2, c, c)
    IN  [w3 EXCEPT !.lastControlOver[pointerId] = c, !.ret = "true"]

\* Control3D._processObservables, POINTERMOVE branch
processMove(w, c, pointerId) ==
    LET w1 == onPointerMove(w, c, c)
        previousControlOver == w1.lastControlOver[pointerId]
        w2 == IF previousControlOver # None /\ previousControlOver # c
              THEN onPointerOut(w1, previousControlOver, c)
              ELSE w1
        w3 == IF previousControlOver # c
              THEN onPointerEnter(w2, c, c)
              ELSE w2
    IN  [w3 EXCEPT !.lastControlOver[pointerId] = c, !.ret = "true"]

\* Control3D._processObservables, POINTERDOWN branch
processDown(w, c, pointerId) ==
    [onPointerDown(w, c, c, pointerId)
       EXCEPT !.lastControlDown[pointerId] = c,
              !.lastPickedControl = c,
              !.ret = "true"]

\* Mutant: the release goes to the control under the pointer.
processUpOnSelf(w, c, pointerId) ==
    LET w1 == IF w.lastControlDown[pointerId] # None
              THEN onPointerUp(w, c, c, pointerId, TRUE)
              ELSE w
    IN  [w1 EXCEPT !.lastControlDown[pointerId] = None, !.ret = "true"]

\* Control3D._processObservables, POINTERUP branch
processUp(w, c, pointerId) ==
    LET w1 == IF w.lastControlDown[pointerId] # None
              THEN onPointerUp(w, w.lastControlDown[pointerId], c, pointerId, TRUE)
              ELSE w
    IN  [w1 EXCEPT !.lastControlDown[pointerId] = None, !.ret = "true"]

\* Control3D._processObservables
processObservables(w, c, type, pointerId) ==
    CASE type = "MOVE" -> processMove(w, c, pointerId)
      [] type = "DOWN" -> processDown(w, c, pointerId)
      [] type = "UP"   -> processUp(w, c, pointerId)
      [] OTHER         -> [w EXCEPT !.ret = "false"]

\* ------------------------------------------------------------- history
\* The last notification among `kinds` that f holds for c, else `before`.
LastOf(f, kinds, c, before) ==
    LET s == SelectSeq(f, LAMBDA e : e.ev \in kinds /\ e.on = c)
    IN  IF s = <<>> THEN before ELSE s[Len(s)].ev

Op(op, c, target, pid, type, notifyClick) ==
    [op |-> op, ctl |-> c, target |-> target, pid |-> pid, type |-> type,
     notifyClick |-> notifyClick, behavior |-> None]

\* Commit the world a pointer operation produced.
Commit(w) ==
    /\ enterCount' = w.enterCount
    /\ downCount' = w.downCount
    /\ downPointerIds' = w.downPointerIds
    /\ lastControlOver' = w.lastControlOver
    /\ lastControlDown' = w.lastControlDown
    /\ lastPickedControl' = w.lastPickedControl
    /\ fired' = w.fired
    /\ ret' = w.ret
    /\ lastEnterOut' = [c \in Controls |->
                          LastOf(w.fired, {"enter", "out"}, c, lastEnterOut[c])]
    /\ lastDownUp' = [c \in Controls |->
                          LastOf(w.fired, {"down", "up"}, c, lastDownUp[c])]
    /\ UNCHANGED <<observers, behVars>>

\* ----------------------------------------------------------- behaviors
\* The part of the state addBehavior / removeBehavior / dispose touch.
BehWorld ==
    [behaviors |-> behaviors, onDataLoaded |-> onDataLoaded,
     initCalls |-> initCalls, attachCalls |-> attachCalls,
     detachCalls |-> detachCalls, observers |-> observers]

\* behavior.attach(control)
attach(bw, c, b) == [bw EXCEPT !.attachCalls[b] = @ + 1]

\* scene.onDataLoadedObservable.addOnce(() => behavior.attach(this))
addOnce(bw, c, b) ==
    [bw EXCEPT !.onDataLoaded = Append(@, [ctl |-> c, behavior |-> b])]

\* Mutant: the attach is not deferred while the scene is loading.
addBehaviorAttachNow(bw, c, b, loading) ==
    LET index == IndexOf(bw.behaviors[c], b)
        w1 == [bw EXCEPT !.initCalls[b] = @ + 1]
        w2 == attach(w1, c, b)
    IN  IF index # -1 THEN bw
        ELSE [w2 EXCEPT !.behaviors[c] = Append(@, b)]

\* Mutant: the list is not searched for the instance first.
addBehaviorNoIndexCheck(bw, c, b, loading) ==
    LET w1 == [bw EXCEPT !.initCalls[b] = @ + 1]
        w2 == IF loading THEN addOnce(w1, c, b) ELSE attach(w1, c, b)
    IN  [w2 EXCEPT !.behaviors[c] = Append(@, b)]

\* Control3D.addBehavior
addBehavior(bw, c, b, loading) ==
    LET index == IndexOf(bw.behaviors[c], b)
        w1 == [bw EXCEPT !.initCalls[b] = @ + 1]
        w2 == IF loading THEN addOnce(w1, c, b) ELSE attach(w1, c, b)
    IN  IF index # -1 THEN bw
        ELSE [w2 EXCEPT !.behaviors[c] = Append(@, b)]

\* Control3D.removeBehavior
removeBehavior(bw, c, b) ==
    LET index == IndexOf(bw.behaviors[c], b)
    IN  IF index = -1 THEN bw
        ELSE [bw EXCEPT !.detachCalls[bw.behaviors[c][index]] = @ + 1,
                        !.behaviors[c] = Splice(@, index)]

\* The loop of dispose: behavior.detach() for each entry of the list.
RECURSIVE detachAll(_, _)
detachAll(bw, list) ==
    IF list = <<>> THEN bw
    ELSE detachAll([bw EXCEPT !.detachCalls[Head(list)] = @ + 1], Tail(list))

\* Mutant: the click observable is not cleared.
disposeKeepsClick(bw, c) ==
    detachAll([bw EXCEPT !.observers[c] = @ \cap {"click"}], bw.behaviors[c])

\* Control3D.dispose (the base control owns no mesh: _createMesh returns null)
dispose(bw, c) ==
    detachAll([bw EXCEPT !.observers[c] = {}], bw.behaviors[c])

\* onDataLoadedObservable.notifyObservers: every pending one-shot callback
\* runs, in registration order, and is unregistered.
RECURSIVE runCallbacks(_, _)
runCallbacks(bw, cbs) ==
    IF cbs = <<>> THEN bw
    ELSE runCallbacks(attach(bw, Head(cbs).ctl, Head(cbs).behavior), Tail(cbs))

notifyDataLoaded(bw) ==
    [runCallbacks(bw, bw.onDataLoaded) EXCEPT !.onDataLoaded = <<>>]

BehOp(op, c, b) ==
    [op |-> op, ctl |-> c, target |-> None, pid |-> None, type |-> "OTHER",
     notifyClick |-> FALSE, behavior |-> b]

\* Commit the world a behavior operation produced.
CommitBeh(bw, r) ==
    /\ behaviors' = bw.behaviors
    /\ onDataLoaded' = bw.onDataLoaded
    /\ initCalls' = bw.initCalls
    /\ attachCalls' = bw.attachCalls
    /\ detachCalls' = bw.detachCalls
    /\ observers' = bw.observers
    /\ fired' = <<>>
    /\ ret' = r
    /\ UNCHANGED <<ctlVars, mgrVars, lastEnterOut, lastDownUp>>

\* ------------------------------------------------------------- actions
Init ==
    /\ enterCount = [c \in Controls |-> 0]
    /\ downCount = [c \in Controls |-> 0]
    /\ downPointerIds = [c \in Controls |-> {}]
    /\ observers = [c \in Controls |-> Channels]
    /\ lastControlOver = [p \in PointerIds |-> None]
    /\ lastControlDown = [p \in PointerIds |-> None]
    /\ lastPickedControl = None
    /\ behaviors = [c \in Controls |-> <<>>]
    /\ isLoading = FALSE
    /\ onDataLoaded = <<>>
    /\ initCalls = [b \in Behaviors |-> 0]
    /\ attachCalls = [b \in Behaviors |-> 0]
    /\ detachCalls = [b \in Behaviors |-> 0]
    /\ fired = <<>>
    /\ ret = "void"
    /\ last = Op("new", None, None, None, "OTHER", FALSE)
    /\ lastEnterOut = [c \in Controls |-> "none"]
    /\ lastDownUp = [c \in Controls |-> "none"]

\* c._onPointerMove(target, _)
CallPointerMove(c) ==
    \E t \in Controls :
        /\ Commit(onPointerMove(World, c, t))
        /\ last' = Op("onPointerMove", c, t, None, "OTHER", FALSE)

\* c._onPointerEnter(target)
CallPointerEnter(c) ==
    \E t \in Controls :
        /\ Commit(onPointerEnter(World, c, t))
        /\ last' = Op("onPointerEnter", c, t, None, "OTHER", FALSE)

\* c._onPointerOut(target)
CallPointerOut(c) ==
    \E t \in Controls :
        /\ Commit(onPointerOut(World, c, t))
        /\ last' = Op("onPointerOut", c, t, None, "OTHER", FALSE)

\* c._onPointerDown(target, _, pointerId, _)
CallPointerDown(c) ==
    \E t \in Controls, p \in PointerIds :
        /\ Commit(onPointerDown(World, c, t, p))
        /\ last' = Op("onPointerDown", c, t, p, "OTHER", FALSE)

\* c._onPointerUp(target, _, pointerId, _, notifyClick)
CallPointerUp(c) ==
    \E t \in Controls, p \in PointerIds, n \in BOOLEAN :
        /\ Commit(onPointerUp(World, c, t, p, n))
        /\ last' = Op("onPointerUp", c, t, p, "OTHER", n)

\* c.forcePointerUp(pointerId) / c.forcePointerUp()
CallForcePointerUp(c) ==
    \E p \in PointerIds \cup {None} :
        /\ Commit(forcePointerUp(World, c, p))
        /\ last' = Op("forcePointerUp", c, c, p, "OTHER", TRUE)

\* The manager routes a picked event: c._processObservables(type, _, pointerId, _)
CallProcessObservables(c) ==
    \E type \in EventTypes, p \in PointerIds :
        /\ Commit(processObservables(World, c, type, p))
        /\ last' = Op("processObservables", c, c, p, type, TRUE)

\* c.addBehavior(behavior)
CallAddBehavior(c) ==
    \E b \in Behaviors :
        /\ b \in SeqToSet(behaviors[c]) \/ initCalls[b] < MaxCalls
        /\ CommitBeh(addBehavior(BehWorld, c, b, isLoading), "this")
        /\ last' = BehOp("addBehavior", c, b)
        /\ UNCHANGED isLoading

\* c.removeBehavior(behavior)
CallRemoveBehavior(c) ==
    \E b \in Behaviors :
        /\ b \notin SeqToSet(behaviors[c]) \/ detachCalls[b] < MaxCalls
        /\ CommitBeh(removeBehavior(BehWorld, c, b), "this")
        /\ last' = BehOp("removeBehavior", c, b)
        /\ UNCHANGED isLoading

\* c.dispose()
CallDispose(c) ==
    /\ \A b \in SeqToSet(behaviors[c]) : detachCalls[b] < MaxCalls
    /\ CommitBeh(dispose(BehWorld, c), "void")
    /\ last' = BehOp("dispose", c, None)
    /\ UNCHANGED isLoading

\* The scene starts loading data.
BeginLoading ==
    /\ ~isLoading
    /\ isLoading' = TRUE
    /\ CommitBeh(BehWorld, "void")
    /\ last' = BehOp("beginLoading", None, None)

\* The scene signals load-complete: onDataLoadedObservable fires.
DataLoaded ==
    /\ isLoading' = FALSE
    /\ CommitBeh(notifyDataLoaded(BehWorld), "void")
    /\ last' = BehOp("dataLoaded", None, None)

\* The behavior methods of one control, and the scene's load signal.
NextBehavior ==
    \/ CallAddBehavior(Subject)
    \/ CallRemoveBehavior(Subject)
    \/ CallDispose(Subject)
    \/ BeginLoading
    \/ DataLoaded

\* The pointer methods called on one control, with any target.
NextDirect ==
    \/ CallPointerEnter(Subject)
    \/ CallPointerOut(Subject)
    \/ CallPointerDown(Subject)
    \/ CallPointerUp(Subject)
    \/ CallForcePointerUp(Subject)

\* Events routed to any control, and forced releases of any control.
NextRouted ==
    \/ \E c \in Controls : CallProcessObservables(c)
    \/ \E c \in Controls : CallForcePointerUp(c)

\* Events routed to any control.
NextRoutedOnly ==
    \E c \in Controls : CallProcessObservables(c)

\* One control used, given behaviors and disposed, in any order.
NextDisposal ==
    \/ CallPointerMove(Subject)
    \/ CallPointerEnter(Subject)
    \/ CallPointerOut(Subject)
    \/ CallPointerDown(Subject)
    \/ CallPointerUp(Subject)
    \/ CallForcePointerUp(Subject)
    \/ CallAddBehavior(Subject)
    \/ CallDispose(Subject)

\* Every pointer operation: events routed by the manager to any control,
\* mixed with direct calls of the primitives and forcePointerUp on one.
NextPointer ==
    \/ CallPointerEnter(Subject)
    \/ CallPointerOut(Subject)
    \/ CallPointerDown(Subject)
    \/ CallPointerUp(Subject)
    \/ CallForcePointerUp(Subject)
    \/ \E c \in Controls : CallProcessObservables(c)

\* Direct calls of the pointer primitives on one control.
SpecDirect == Init /\ [][NextDirect]_vars
\* Events routed by the manager, and forced releases.
SpecRouted == Init /\ [][NextRouted]_vars
\* Events routed by the manager only.
SpecRoutedOnly == Init /\ [][NextRoutedOnly]_vars
\* The behavior lifecycle of one control and the scene's load signal.
SpecBehavior == Init /\ [][NextBehavior]_vars
\* The pointer methods, addBehavior and dispose of one control.
SpecDisposal == Init /\ [][NextDisposal]_vars
\* Routed events on all controls with direct calls and forcePointerUp.
SpecPointer == Init /\ [][NextPointer]_vars

\* ======================================================== verification
\* (event, control notified, target) of each notification of f, in order.
Proj(f) == [i \in 1..Len(f) |-> <<f[i].ev, f[i].on, f[i].target>>]

\* s alternates between `open` and `close`, continuing from `prev`:
\* `open` only after "none" or `close`, `close` only after `open`.
RECURSIVE Alternating(_, _, _)
Alternating(prev, s, open) ==
    IF s = <<>> THEN TRUE
    ELSE /\ IF Head(s).ev = open THEN prev # open ELSE prev = open
         /\ Alternating(Head(s).ev, Tail(s), open)

OnControl(f, kinds, c) == SelectSeq(f, LAMBDA e : e.ev \in kinds /\ e.on = c)

\* C1: under routed events and forcePointerUp calls, on every control the
\* enter and out notifications strictly alternate starting with enter, and
\* the down and up notifications strictly alternate starting with down.
C1_StrictAlternation ==
    [][\A c \in Controls :
          /\ Alternating(lastEnterOut[c], OnControl(fired', {"enter", "out"}, c), "enter")
          /\ Alternating(lastDownUp[c], OnControl(fired', {"down", "up"}, c), "down")]_vars

\* A routed MOVE of pointer last'.pid to control last'.ctl while the manager
\* holds another control for that pointer.
MoveFromOther ==
    /\ last'.op = "processObservables"
    /\ last'.type = "MOVE"
    /\ lastControlOver[last'.pid] # None
    /\ lastControlOver[last'.pid] # last'.ctl

\* C2 (as stated): a MOVE routed to B while lastControlOver[pid] = A # B
\* fires, as enter/out notifications, exactly out on A then enter on B, both
\* targeted at B, and leaves lastControlOver[pid] = B.
C2_OutThenEnterAlways ==
    [][MoveFromOther =>
          LET A == lastControlOver[last'.pid]
              B == last'.ctl
          IN  /\ Proj(Only(fired', {"enter", "out"})) = <<<<"out", A, B>>, <<"enter", B, B>>>>
              /\ lastControlOver'[last'.pid] = B]_vars

\* C2 (amended): such a MOVE fires out on A targeted at B, followed by enter
\* on B targeted at B exactly when B's enter-count was 0 before the call (no
\* enter otherwise), and leaves lastControlOver[pid] = B.
C2_OutThenGuardedEnter ==
    [][MoveFromOther =>
          LET A == lastControlOver[last'.pid]
              B == last'.ctl
          IN  /\ Proj(Only(fired', {"enter", "out"})) =
                    IF enterCount[B] = 0
                    THEN <<<<"out", A, B>>, <<"enter", B, B>>>>
                    ELSE <<<<"out", A, B>>>>
              /\ lastControlOver'[last'.pid] = B]_vars

C2_Witness ==
    /\ last.op = "processObservables"
    /\ last.type = "MOVE"
    /\ \E A \in Controls \ {last.ctl} :
          Proj(Only(fired, {"enter", "out"})) =
              <<<<"out", A, last.ctl>>, <<"enter", last.ctl, last.ctl>>>>
    /\ lastControlOver[last.pid] = last.ctl

\* C3: forcePointerUp(id) with id not in the control's down-pointer-ids
\* fires no up and no click notification.
C3_ForceUnknownIdIsNoOp ==
    [][(/\ last'.op = "forcePointerUp"
        /\ last'.pid # None
        /\ last'.pid \notin downPointerIds[last'.ctl])
          => Only(fired', {"up", "click"}) = <<>>]_vars

\* C4: of the onPointerEnter calls on a control with no onPointerOut in
\* between, only the first returns true, increments enter-count and fires
\* enter; a later one returns false, fires nothing and leaves enter-count.
C4_EnterGuard ==
    [][last'.op = "onPointerEnter" =>
          LET c == last'.ctl
          IN  IF lastEnterOut[c] = "enter"
              THEN /\ ret' = "false"
                   /\ fired' = <<>>
                   /\ enterCount' = enterCount
              ELSE /\ ret' = "true"
                   /\ Proj(fired') = <<<<"enter", c, last'.target>>>>
                   /\ enterCount' = [enterCount EXCEPT ![c] = @ + 1]]_vars

C4_Witness ==
    /\ last.op = "onPointerEnter"
    /\ ret = "false"
    /\ fired = <<>>
    /\ lastEnterOut[last.ctl] = "enter"
    /\ enterCount[last.ctl] = 1

\* C5: of the onPointerDown calls on a control with no onPointerUp in
\* between, whatever the pointer ids, only the first returns true and fires
\* down; onPointerUp resets down-count to 0; enter/out calls never change
\* down-count and down/up calls never change enter-count.
C5_DownGuardIndependent ==
    [][/\ last'.op = "onPointerDown" =>
             LET c == last'.ctl
             IN  IF lastDownUp[c] = "down"
                 THEN /\ ret' = "false"
                      /\ fired' = <<>>
                      /\ downCount' = downCount
                 ELSE /\ ret' = "true"
                      /\ Proj(fired') = <<<<"down", c, last'.target>>>>
                      /\ downCount' = [downCount EXCEPT ![c] = @ + 1]
       /\ last'.op = "onPointerUp" =>
             downCount' = [downCount EXCEPT ![last'.ctl] = 0]
       /\ last'.op \in {"onPointerEnter", "onPointerOut"} => downCount' = downCount
       /\ last'.op \in {"onPointerDown", "onPointerUp"} => enterCount' = enterCount]_vars

\* A down of another pointer id was suppressed while the control is hovered.
C5_Witness ==
    /\ last.op = "onPointerDown"
    /\ ret = "false"
    /\ last.pid \notin downPointerIds[last.ctl]
    /\ downCount[last.ctl] = 1
    /\ enterCount[last.ctl] = 1

\* C6: every onPointerUp call fires up; it fires click, before up, if and
\* only if notifyClick is true and enter-count > 0 at the time of the call.
C6_ClickBeforeUp ==
    [][last'.op = "onPointerUp" =>
          LET c == last'.ctl
              t == last'.target
          IN  Proj(fired') =
                 IF last'.notifyClick /\ enterCount[c] > 0
                 THEN <<<<"click", c, t>>, <<"up", c, t>>>>
                 ELSE <<<<"up", c, t>>>>]_vars

C6_Witness ==
    /\ last.op = "onPointerUp"
    /\ last.notifyClick
    /\ Proj(fired) = <<<<"click", last.ctl, last.target>>, <<"up", last.ctl, last.target>>>>

\* C7: an UP routed for pid through control B while lastControlDown[pid] = A
\* fires up (preceded by click iff A's enter-count > 0) on A, nothing on B
\* when A # B, and removes lastControlDown[pid]; with no entry it fires
\* nothing; in both cases it returns true.
C7_UpOnPressedControl ==
    [][(last'.op = "processObservables" /\ last'.type = "UP") =>
          LET A == lastControlDown[last'.pid]
              B == last'.ctl
          IN  /\ Proj(fired') =
                    IF A = None THEN <<>>
                    ELSE IF enterCount[A] > 0
                         THEN <<<<"click", A, B>>, <<"up", A, B>>>>
                         ELSE <<<<"up", A, B>>>>
              /\ lastControlDown'[last'.pid] = None
              /\ ret' = "true"]_vars

\* Press, drag off, release: up fired on a control other than the routed one.
C7_Witness ==
    /\ last.op = "processObservables"
    /\ last.type = "UP"
    /\ \E A \in Controls \ {last.ctl} : NumFired(fired, "up", A) = 1
    /\ NumFired(fired, "up", last.ctl) = 0
    /\ lastControlDown[last.pid] = None

\* C8: forcePointerUp() fires exactly one up notification for each pointer
\* id in down-pointer-ids at the start of the call, and leaves
\* down-pointer-ids empty and down-count 0.
C8_ForceAllReleasesEach ==
    [][(last'.op = "forcePointerUp" /\ last'.pid = None) =>
          LET c == last'.ctl
          IN  /\ NumFired(fired', "up", c) = Cardinality(downPointerIds[c])
              /\ \A d \in Controls \ {c} : NumFired(fired', "up", d) = 0
              /\ downPointerIds'[c] = {}
              /\ downCount'[c] = 0]_vars

\* Several ids were recorded and each got its up.
C8_Witness ==
    /\ last.op = "forcePointerUp"
    /\ last.pid = None
    /\ NumFired(fired, "up", last.ctl) >= 2
    /\ downPointerIds[last.ctl] = {}

\* Number of pending load-complete callbacks that attach behavior b.
Pending(cbs, b) == Cardinality({i \in 1..Len(cbs) : cbs[i].behavior = b})

\* C9: a behavior added while the scene is loading is not attached at add
\* time; its attach runs exactly once, when load-complete next fires, and
\* not again on later load-completes; a behavior added while the scene is
\* not loading is attached at once; nothing else attaches.
C9_DeferredAttachOnce ==
    [][/\ (last'.op = "addBehavior" /\ last'.behavior \notin SeqToSet(behaviors[last'.ctl])) =>
             LET b == last'.behavior
             IN  IF isLoading
                 THEN /\ attachCalls' = attachCalls
                      /\ onDataLoaded' = Append(onDataLoaded, [ctl |-> last'.ctl, behavior |-> b])
                 ELSE /\ attachCalls' = [attachCalls EXCEPT ![b] = @ + 1]
                      /\ onDataLoaded' = onDataLoaded
       /\ last'.op = "dataLoaded" =>
             /\ \A b \in Behaviors :
                   attachCalls'[b] = attachCalls[b] + Pending(onDataLoaded, b)
             /\ onDataLoaded' = <<>>
       /\ last'.op \in {"removeBehavior", "dispose", "beginLoading"} =>
             attachCalls' = attachCalls /\ onDataLoaded' = onDataLoaded
       /\ \A b \in Behaviors :
             initCalls'[b] = attachCalls'[b] + Pending(onDataLoaded', b)]_vars

\* A behavior was just added while loading: initialised, not attached.
C9_Witness ==
    /\ last.op = "addBehavior"
    /\ isLoading
    /\ initCalls[last.behavior] = 1
    /\ attachCalls[last.behavior] = 0
    /\ Pending(onDataLoaded, last.behavior) = 1

BehState == <<behaviors, onDataLoaded, initCalls, attachCalls, detachCalls, isLoading>>

\* C10: addBehavior of an instance already in the list changes nothing (so
\* two adds give one init, one attach and one list entry); the list never
\* holds duplicates; removeBehavior of an absent behavior changes nothing
\* and calls no detach.
C10_IdempotentAdd ==
    [][/\ last'.op = "addBehavior" =>
             LET c == last'.ctl
                 b == last'.behavior
             IN  /\ CountIn(behaviors'[c], b) = 1
                 /\ IF b \in SeqToSet(behaviors[c])
                    THEN BehState' = BehState
                    ELSE /\ initCalls' = [initCalls EXCEPT ![b] = @ + 1]
                         /\ attachCalls'[b] + Pending(onDataLoaded', b)
                               = attachCalls[b] + Pending(onDataLoaded, b) + 1
       /\ (last'.op = "removeBehavior" /\ last'.behavior \notin SeqToSet(behaviors[last'.ctl])) =>
             BehState' = BehState
       /\ \A c \in Controls, b \in Behaviors : CountIn(behaviors'[c], b) <= 1]_vars

\* The instance added last is in the list but is not its newest entry: the
\* call was a repeated add.
C10_Witness ==
    /\ last.op = "addBehavior"
    /\ IndexOf(behaviors[last.ctl], last.behavior) # -1
    /\ IndexOf(behaviors[last.ctl], last.behavior) < Len(behaviors[last.ctl])
    /\ initCalls[last.behavior] = 1

PointerOps ==
    {"onPointerMove", "onPointerEnter", "onPointerOut", "onPointerDown",
     "onPointerUp", "forcePointerUp", "processObservables"}

\* C11: dispose() empties all six notification channels of the control, so
\* that the subscribers they held receive nothing from any later pointer
\* operation, calls detach once on every behavior of the list and leaves
\* the list as it is.
C11_DisposeClearsAndDetaches ==
    [][/\ last'.op = "dispose" =>
             LET c == last'.ctl
             IN  /\ observers'[c] = {}
                 /\ behaviors' = behaviors
                 /\ \A b \in Behaviors :
                       detachCalls'[b] = detachCalls[b] + CountIn(behaviors[c], b)
       /\ \A c \in Controls :
             observers[c] = {} =>
                /\ observers'[c] = {}
                /\ \A i \in 1..Len(fired') : fired'[i].on = c => ~fired'[i].heard]_vars

\* A pointer operation notified on a disposed control whose behavior was
\* detached and is still listed; nobody heard it.
C11_Witness ==
    /\ last.op \in PointerOps
    /\ observers[last.ctl] = {}
    /\ fired # <<>>
    /\ \A i \in 1..Len(fired) : ~fired[i].heard
    /\ \E b \in Behaviors :
          b \in SeqToSet(behaviors[last.ctl]) /\ detachCalls[b] = 1

\* C12: every onPointerOut call sets enter-count to 0 and fires exactly one
\* out, whatever enter-count was and however many onPointerEnter calls were
\* suppressed before; the onPointerEnter call that follows it returns true
\* and fires enter.
C12_OutResetsHover ==
    [][/\ last'.op = "onPointerOut" =>
             /\ enterCount'[last'.ctl] = 0
             /\ Proj(fired') = <<<<"out", last'.ctl, last'.target>>>>
       /\ (last'.op = "onPointerEnter" /\ lastEnterOut[last'.ctl] = "out") =>
             /\ ret' = "true"
             /\ Proj(fired') = <<<<"enter", last'.ctl, last'.target>>>>]_vars

\* onPointerOut has just been called on a control that is pressed, and so was
\* used before: it is un-hovered and heard one out.
C12_Witness ==
    /\ last.op = "onPointerOut"
    /\ enterCount[last.ctl] = 0
    /\ NumFired(fired, "out", last.ctl) = 1
    /\ Len(fired) = 1
    /\ downCount[last.ctl] = 1

\* C13: every routed MOVE fires one move on its control and at most one
\* enter; a MOVE for a pointer id whose last MOVE went to the same control
\* fires that move and nothing else, and lastControlOver[pid] stays that
\* control.
C13_RepeatedMoveNoEnter ==
    [][(last'.op = "processObservables" /\ last'.type = "MOVE") =>
          LET c == last'.ctl
          IN  /\ NumFired(fired', "move", c) = 1
              /\ NumFired(fired', "enter", c) <= 1
              /\ lastControlOver'[last'.pid] = c
              /\ lastControlOver[last'.pid] = c =>
                    Proj(fired') = <<<<"move", c, c>>>>]_vars

\* The only pointer that has moved so far is over a hovered control and its
\* last MOVE fired move alone: it was a MOVE to the control it was over.
C13_Witness ==
    /\ last.op = "processObservables"
    /\ last.type = "MOVE"
    /\ Proj(fired) = <<<<"move", last.ctl, last.ctl>>>>
    /\ lastControlOver[last.pid] = last.ctl
    /\ \A q \in PointerIds \ {last.pid} : lastControlOver[q] = None
    /\ enterCount[last.ctl] = 1

\* C14: whenever a control's down-pointer-ids is non-empty its down-count is
\* greater than 0 (so that an onPointerUp for one pointer id leaves the other
\* recorded ids down).
C14_DownIdsImplyDown ==
    \A c \in Controls : downPointerIds[c] # {} => downCount[c] > 0

\* C15: in every state reached by onPointerEnter, onPointerOut,
\* onPointerDown, onPointerUp and forcePointerUp calls and routed events,
\* each control's enter-count is 0 or 1 and its down-count is 0 or 1.
C15_CountsAreFlags ==
    \A c \in Controls : enterCount[c] \in {0, 1} /\ downCount[c] \in {0, 1}

\* A control is hovered and pressed at once and a guarded call on it has
\* just been refused.
C15_Witness ==
    /\ last.op \in {"onPointerEnter", "onPointerDown"}
    /\ ret = "false"
    /\ enterCount[last.ctl] = 1
    /\ downCount[last.ctl] = 1
    /\ \E p \in PointerIds : lastControlOver[p] # None

\* C16: under routed events with several pointer ids, a control that is
\* lastControlOver[p] for some pointer id p has enter-count > 0: it is not
\* left un-hovered because another pointer moved off it.
C16_OverImpliesHovered ==
    \A p \in PointerIds :
        lastControlOver[p] # None => enterCount[lastControlOver[p]] > 0

\* Every click in s comes after a down with no up and no other click in
\* between, where `prev` is the last of down/up/click before s.
RECURSIVE ClicksFollowDown(_, _)
ClicksFollowDown(prev, s) ==
    IF s = <<>> THEN TRUE
    ELSE /\ Head(s).ev = "click" => prev = "down"
         /\ ClicksFollowDown(Head(s).ev, Tail(s))

\* C17: under routed events and forcePointerUp calls, every click fired on a
\* control is preceded by a down fired on the same control with no up on it
\* in between, at most one click per fired down.
C17_ClickNeedsDown ==
    [][\A c \in Controls :
          ClicksFollowDown(lastDownUp[c],
                           OnControl(fired', {"down", "up", "click"}, c))]_vars

\* C18: under routed events, a control with down-count > 0 is
\* lastControlDown[p] for at least one pointer id p, so that some routed UP
\* can still release it.
C18_DownImpliesRecorded ==
    \A c \in Controls :
        downCount[c] > 0 => \E p \in PointerIds : lastControlDown[p] = c

\* C20: under routed events only, a control with enter-count > 0 is
\* lastControlOver[p] for at least one pointer id p.
C20_HoveredImpliesOver ==
    \A c \in Controls :
        enterCount[c] > 0 => \E p \in PointerIds : lastControlOver[p] = c

\* Every pointer recorded over a control has moved to another one: the
\* control left heard out and is un-hovered, the other one is hovered.
C20_Witness ==
    /\ last.op = "processObservables"
    /\ last.type = "MOVE"
    /\ \E A \in Controls \ {last.ctl} :
          /\ lastEnterOut[A] = "out"
          /\ enterCount[A] = 0
          /\ NumFired(fired, "out", A) = 1
          /\ \A p \in PointerIds : lastControlOver[p] # A
    /\ enterCount[last.ctl] = 1
    /\ lastControlOver[last.pid] = last.ctl

\* C19: attach is never invoked for a behavior that is absent from the
\* control's list or whose control was disposed: every deferred attach that
\* runs when load-complete fires is for a behavior still in its control's
\* list, and dispose leaves no deferred attach of its control to run.
C19_NoAttachWhenAbsent ==
    [][/\ last'.op = "dataLoaded" =>
             \A i \in 1..Len(onDataLoaded) :
                 onDataLoaded[i].behavior \in SeqToSet(behaviors[onDataLoaded[i].ctl])
       /\ last'.op = "dispose" =>
             \A i \in 1..Len(onDataLoaded') : onDataLoaded'[i].ctl # last'.ctl]_vars

====
